---- MODULE Spec2Model ----
(***************************************************************************)
(* The job manager of src/index.ts: the job state machine, the two job     *)
(* indices, runJobs with its tier-by-tier Promise.all, the retry executor  *)
(* withExponentialBackoff and cancel.                                      *)
(*                                                                         *)
(* JavaScript runs one callback at a time, so every action below is one    *)
(* run-to-completion piece of code: from a call or a resumption up to the  *)
(* next await (a timer, a pending promise, the continuation of an await).  *)
(* The callers of createJob, runJobs and cancel may run between any two    *)
(* such pieces.  Job callbacks are opaque: each invocation chooses its     *)
(* outcome freely.  The one call back into the manager that is modelled is *)
(* a callback cancelling a job that the running tier has not reached yet   *)
(* (see dispatchTier); any other call a callback makes has the effect of   *)
(* the same call made right after the current piece of code.               *)
(***************************************************************************)
EXTENDS Integers, Sequences, FiniteSets, TLC

\* Bounds of the model.
MaxJobs == 2
MaxPasses == 2
\* The values of the maxFailures argument of runJobs; every call of runJobs in one
\* behaviour is given the same one.
MaxFailuresArgs == {0, 1, 2}
\* The values of the maxFailures argument under SpecHistory and SpecTiers.
HistoryArgs == {2}
\* The values of the maxFailures argument under SpecExecutor.
ExecutorArgs == {0, 1, 2, 3, 4}
\* The number of backoff sleeps of the executor run that SpecBackoff follows.
MaxSleeps == 4

VARIABLES
  nextId,      \* number of Job objects constructed; ids are 1..nextId (uuid())
  priority,    \* Job.priority
  state,       \* Job.state
  aborted,     \* Job.abortController.signal.aborted
  jobs,        \* JobManager.jobs: priority -> set of job ids
  jobsById,    \* JobManager.jobsById: set of job ids
  passPc,      \* per runJobs call: "idle", "running", "resolved", "rejected"
  passTier,    \* per runJobs call: index of the tier being awaited, 0 before the call
  maxFailures, \* the maxFailures argument the runJobs calls are given
  passFault,   \* per runJobs call: a per-job promise of it has rejected
  dispatched,  \* per runJobs call: the jobs its per-job function has run for
  owner,       \* per job: the runJobs call that started it (0: none)
  taskPc,      \* per job: position of the per-job function that started it
  attempt,     \* per job: withExponentialBackoff's local `attempt`
  execResult,  \* per job: how withExponentialBackoff's promise settled
  trace,       \* per job: the outcomes of the invocations of its callback
  sigSeen,     \* per job: signal.aborted as its callback last read it
  cancelledIn,    \* per job: the state cancel found it in ("none": never cancelled)
  lastTransition, \* SpecTransition only: the latest direct call of transitionState
  slept,          \* SpecBackoff only: the delays one executor run has slept, in order
  createdAt,      \* SpecHistory only: per job, the number of runJobs calls made
                  \* before the job was created
  createdIn       \* SpecTiers only: per job, where the first runJobs call was
                  \* when the job was created

vars == <<nextId, priority, state, aborted, jobs, jobsById, passPc, passTier,
          maxFailures, passFault, dispatched, owner, taskPc, attempt, execResult,
          trace, sigSeen, cancelledIn, lastTransition, slept, createdAt,
          createdIn>>

jobVars == <<nextId, priority, state, aborted, jobs, jobsById>>
passVars == <<passPc, passTier, maxFailures, passFault, dispatched>>
taskVars == <<owner, taskPc, attempt, execResult, trace, sigSeen>>
auxVars == <<lastTransition, slept>>
histVars == <<createdAt, createdIn>>

----------------------------------------------------------------------------
\* The enums.

JobStates == {"Created", "Processing", "Completed", "Cancelled", "Failed"}

JobActions == {"Start", "Complete", "Cancel", "Fail"}

Priority == {"low", "medium", "high"}

\* The order in which runJobs walks the tiers.
PriorityOrder == <<"high", "medium", "low">>

Passes == 1..MaxPasses

JobIds == 1..MaxJobs

NoFault == "none"

----------------------------------------------------------------------------
\* Errors.  Only their `name` is ever inspected by the code.

\* `new Error("AbortError")`: the argument is the message, the name stays "Error".
AbortCheckError == [name |-> "Error", message |-> "AbortError"]

\* What a job callback throws or rejects with: a plain error ...
CallbackError == [name |-> "Error", message |-> "TestError"]

\* ... or an error whose name is "AbortError" (signal.throwIfAborted(), fetch).
NamedAbortError == [name |-> "AbortError", message |-> "This operation was aborted"]

\* What assert(false, message, context) of ./libs/errors throws.
AssertionError(message) == [name |-> "AssertionError", message |-> message]

NoError == [name |-> "", message |-> ""]

----------------------------------------------------------------------------
\* The state machine table.

\* The table of the first iteration of the source: Cancelled accepts no action.
stateMachine_CancelledNotAbsorbing ==
  [Created    |-> [Start |-> "Processing", Cancel |-> "Cancelled"],
   Processing |-> [Complete |-> "Completed", Cancel |-> "Cancelled",
                   Fail |-> "Failed"],
   Completed  |-> <<>>,
   Cancelled  |-> <<>>,
   Failed     |-> <<>>]

\* A table in which a completion overwrites a cancellation.
stateMachine_CompleteOverwrites ==
  [Created    |-> [Start |-> "Processing", Cancel |-> "Cancelled"],
   Processing |-> [Complete |-> "Completed", Cancel |-> "Cancelled",
                   Fail |-> "Failed"],
   Completed  |-> <<>>,
   Cancelled  |-> [Start |-> "Cancelled", Complete |-> "Completed",
                   Cancel |-> "Cancelled", Fail |-> "Cancelled"],
   Failed     |-> <<>>]

stateMachine ==
  [Created    |-> [Start |-> "Processing", Cancel |-> "Cancelled"],
   Processing |-> [Complete |-> "Completed", Cancel |-> "Cancelled",
                   Fail |-> "Failed"],
   Completed  |-> <<>>,
   Cancelled  |-> [Start |-> "Cancelled", Complete |-> "Cancelled",
                   Cancel |-> "Cancelled", Fail |-> "Cancelled"],
   Failed     |-> <<>>]

(***************************************************************************)
(* The manager's private methods act on one job.  They are operators on a  *)
(* job context c: the job's state, whether each index holds it, and the    *)
(* error thrown so far (NoError: none).  A method applied to a context     *)
(* that already carries an error is never reached and leaves it alone.     *)
(***************************************************************************)
\* issued and jobFailed are what the piece of code has done so far: the actions it
\* has called transitionState with, and whether it has logged "JobFailed".
Ctx(j) == [state |-> state[j],
           byId |-> j \in jobsById,
           byPriority |-> j \in jobs[priority[j]],
           error |-> NoError,
           issued |-> <<>>,
           jobFailed |-> FALSE]

\* The context of a lookup that found no job.
NoJob == [state |-> "", byId |-> FALSE, byPriority |-> FALSE, error |-> NoError,
          issued |-> <<>>, jobFailed |-> FALSE]

Thrown(c) == c.error # NoError

Throw(c, message) == [c EXCEPT !.error = AssertionError(message)]

assertJobRemoved(c) ==
  IF Thrown(c) THEN c
  ELSE IF c.byId
    THEN Throw(c, "cancelled job should have been removed from jobsById map")
  ELSE IF c.byPriority
    THEN Throw(c, "cancelled job should have been removed from the priority jobs map")
  ELSE c

\* isCancelled's boolean result is c.state = "Cancelled"; this is its effect.
isCancelled(c) ==
  IF Thrown(c) THEN c
  ELSE IF c.state = "Cancelled" THEN assertJobRemoved(c)
  ELSE c

assertTerminalState(c) ==
  IF Thrown(c) THEN c
  ELSE IF DOMAIN stateMachine[c.state] = {} \/ c.state = "Cancelled" THEN c
  ELSE Throw(c, "unexpected terminal state")

\* removeJob without `this.jobsById.delete(job.id)`.
removeJob_KeepsById(c) ==
  LET a == assertTerminalState(c)
  IN IF Thrown(a) THEN a
     ELSE assertJobRemoved([a EXCEPT !.byPriority = FALSE])

removeJob(c) ==
  LET a == assertTerminalState(c)
  IN IF Thrown(a) THEN a
     ELSE assertJobRemoved([a EXCEPT !.byPriority = FALSE, !.byId = FALSE])

transitionState(c, action) ==
  LET c1 == [c EXCEPT !.issued = Append(@, action)]
  IN IF Thrown(c) THEN c
     ELSE IF action \in DOMAIN stateMachine[c.state]
       THEN [c1 EXCEPT !.state = stateMachine[c.state][action]]
     ELSE Throw(c1, "Invalid state transition")

----------------------------------------------------------------------------
\* Job callbacks: what one invocation does, and how a returned promise settles.

Outcomes == {"return", "throw", "throwAbort", "promise"}

SettleOutcomes == {"resolve", "reject", "rejectAbort"}

\* The value of signal.aborted a callback reads from the signal it was given.
getSignal(j) == IF aborted[j] THEN "set" ELSE "clear"

(***************************************************************************)
(* One iteration of withExponentialBackoff's loop, from `while (true)` to  *)
(* the next await or to the end of the function, in a call with the        *)
(* arguments maxFailures and baseBackoffMillis = 1000.  isAborted is        *)
(* signal.aborted, att the local `attempt`, outcome what fn(signal) does   *)
(* if it is called.  The result tells whether fn was called, the new       *)
(* `attempt`, and where the executor is: "sleep" (awaiting waitForTime),   *)
(* "pending" (it returned fn's promise, which is not settled yet) or       *)
(* "settled" with its result (NoError: resolved).                          *)
(***************************************************************************)
\* The baseBackoffMillis argument runJobs gives the executor.
baseBackoffMillis == 1000

\* Values of Math.random() * (baseBackoffMillis / 2), which lies in [0, 500):
\* both ends of the range and values in between, in whole milliseconds.
Jitters == {0, 1, 250, 499}

\* A delay that grows with the attempt linearly.
backoffDelay_Linear(att, jitter) == att * (baseBackoffMillis \div 2) + jitter

\* The time `delay + jitter` the executor sleeps after its att-th failure.
backoffDelay(att, jitter) == 2 ^ att * (baseBackoffMillis \div 2) + jitter

\* The executor with `attempt > maxFailures` for `attempt >= maxFailures`.
withExponentialBackoff_OffByOne(isAborted, att, outcome) ==
  LET e == IF isAborted THEN AbortCheckError
           ELSE IF outcome = "throw" THEN CallbackError
           ELSE IF outcome = "throwAbort" THEN NamedAbortError
           ELSE NoError
  IN IF e = NoError
       THEN [invoked |-> ~isAborted, attempt |-> att, result |-> NoError,
             pc |-> IF outcome = "promise" THEN "pending" ELSE "settled"]
     ELSE IF e.name = "AbortError"
       THEN [invoked |-> ~isAborted, attempt |-> att, result |-> e, pc |-> "settled"]
     ELSE IF att + 1 > maxFailures
       THEN [invoked |-> ~isAborted, attempt |-> att + 1, result |-> e, pc |-> "settled"]
     ELSE [invoked |-> ~isAborted, attempt |-> att + 1, result |-> NoError, pc |-> "sleep"]

\* The executor without the `if (signal.aborted)` check before it calls fn.
withExponentialBackoff_NoAbortCheck(isAborted, att, outcome) ==
  LET e == IF outcome = "throw" THEN CallbackError
           ELSE IF outcome = "throwAbort" THEN NamedAbortError
           ELSE NoError
  IN IF e = NoError
       THEN [invoked |-> TRUE, attempt |-> att, result |-> NoError,
             pc |-> IF outcome = "promise" THEN "pending" ELSE "settled"]
     ELSE IF e.name = "AbortError"
       THEN [invoked |-> TRUE, attempt |-> att, result |-> e, pc |-> "settled"]
     ELSE IF att + 1 >= maxFailures
       THEN [invoked |-> TRUE, attempt |-> att + 1, result |-> e, pc |-> "settled"]
     ELSE [invoked |-> TRUE, attempt |-> att + 1, result |-> NoError, pc |-> "sleep"]

withExponentialBackoff(isAborted, att, outcome) ==
  LET invoked == ~isAborted
      e == IF isAborted THEN AbortCheckError
           ELSE IF outcome = "throw" THEN CallbackError
           ELSE IF outcome = "throwAbort" THEN NamedAbortError
           ELSE NoError
  IN IF e = NoError
       THEN [invoked |-> invoked, attempt |-> att, result |-> NoError,
             pc |-> IF outcome = "promise" THEN "pending" ELSE "settled"]
     ELSE IF e.name = "AbortError"
       THEN [invoked |-> invoked, attempt |-> att, result |-> e, pc |-> "settled"]
     ELSE IF att + 1 >= maxFailures
       THEN [invoked |-> invoked, attempt |-> att + 1, result |-> e, pc |-> "settled"]
     ELSE [invoked |-> invoked, attempt |-> att + 1, result |-> NoError, pc |-> "sleep"]

----------------------------------------------------------------------------
\* The per-job function of runJobs (the async arrow function given to map).

\* The try block up to the call of withExponentialBackoff.
tryStart(c) ==
  LET c1 == isCancelled(c)
  IN IF Thrown(c1) \/ c1.state = "Cancelled" THEN c1
     ELSE IF c1.state # "Created"
       THEN Throw(c1, "expected job to be in the Created state")
     ELSE transitionState(c1, "Start")

\* The try block after `await withExponentialBackoff(...)` has resolved.
tryComplete(c) == transitionState(isCancelled(c), "Complete")

\* The catch block; c.error is the error caught.
catchBlock(c) ==
  LET c0 == [c EXCEPT !.error = NoError]
  IN IF c.error.name = "AbortError"
       THEN IF c0.state = "Cancelled" THEN c0
            ELSE Throw(c0, "abort error should only be thrown for a cancelled job")
     ELSE transitionState([c0 EXCEPT !.jobFailed = TRUE], "Fail")

\* The finally block; c.error is the error that is propagating, if any.
finallyBlock(c) ==
  LET f == removeJob(assertTerminalState([c EXCEPT !.error = NoError]))
  IN IF Thrown(f) THEN f ELSE [f EXCEPT !.error = c.error]

\* What follows the try block: the catch block if it threw, then the finally block.
catchFinally(c) == finallyBlock(IF Thrown(c) THEN catchBlock(c) ELSE c)

(***************************************************************************)
(* The synchronous part of the per-job function for a job with context c0  *)
(* and signal isAborted: either it starts the job and suspends in the      *)
(* executor (started), or it ends at once, resolved or rejected.           *)
(***************************************************************************)
jobStart(c0, isAborted, outcome) ==
  LET c == tryStart(c0)
      started == ~Thrown(c) /\ c.state = "Processing"
      ex == withExponentialBackoff(isAborted, 0, outcome)
      f == catchFinally(c)
  IN IF started
       THEN [started |-> TRUE, ctx |-> c, ex |-> ex, rejected |-> FALSE]
     ELSE [started |-> FALSE, ctx |-> f, ex |-> ex, rejected |-> Thrown(f)]

\* The trace of a job's callback after an executor iteration.
Invoke(j, ex, outcome) ==
  IF ex.invoked THEN Append(trace[j], outcome) ELSE trace[j]

----------------------------------------------------------------------------
\* The state after `new JobManager()`, before any call.

\* What cancelledIn records of a job that is being cancelled: its state, apart
\* from a job left Processing by a per-job function that has ended already.
Found(id) ==
  IF state[id] = "Processing" /\ taskPc[id] \in {"resolved", "rejected"}
    THEN "Abandoned"
  ELSE state[id]

NotCancelled == "none"

Init ==
  /\ nextId = 0
  /\ priority = <<>>
  /\ state = <<>>
  /\ aborted = <<>>
  /\ jobs = [pr \in Priority |-> {}]
  /\ jobsById = {}
  /\ passPc = [p \in Passes |-> "idle"]
  /\ passTier = [p \in Passes |-> 0]
  /\ maxFailures \in MaxFailuresArgs
  /\ passFault = [p \in Passes |-> FALSE]
  /\ dispatched = [p \in Passes |-> {}]
  /\ owner = <<>>
  /\ taskPc = <<>>
  /\ attempt = <<>>
  /\ execResult = <<>>
  /\ trace = <<>>
  /\ sigSeen = <<>>
  /\ cancelledIn = <<>>
  /\ lastTransition = [id |-> 0, from |-> "", action |-> "", fault |-> NoFault]
  /\ slept = <<>>
  /\ createdAt = <<>>
  /\ createdIn = <<>>

\* The fault a call raises to its caller when it ends with context c.
Fault(c) == IF Thrown(c) THEN c.error.message ELSE NoFault

\* Job j's state and index entries become those of the context c.
Store(j, c) ==
  /\ state' = [state EXCEPT ![j] = c.state]
  /\ jobsById' = IF c.byId THEN jobsById ELSE jobsById \ {j}
  /\ jobs' = IF c.byPriority THEN jobs
             ELSE [jobs EXCEPT ![priority[j]] = @ \ {j}]

----------------------------------------------------------------------------
\* createJob(name, fn, priority): the ids uuid() returns are modelled as 1, 2, ...

\* createJob without `this.jobsById.set(job.id, job)`.
createJob_NoByIdEntry(pr) ==
  /\ nextId < MaxJobs
  /\ nextId' = nextId + 1
  /\ priority' = Append(priority, pr)
  /\ state' = Append(state, "Created")
  /\ aborted' = Append(aborted, FALSE)
  /\ jobs' = [jobs EXCEPT ![pr] = @ \cup {nextId + 1}]
  /\ jobsById' = jobsById
  /\ owner' = Append(owner, 0)
  /\ taskPc' = Append(taskPc, "none")
  /\ attempt' = Append(attempt, 0)
  /\ execResult' = Append(execResult, NoError)
  /\ trace' = Append(trace, <<>>)
  /\ sigSeen' = Append(sigSeen, "unread")
  /\ cancelledIn' = Append(cancelledIn, NotCancelled)
  /\ UNCHANGED <<passVars, auxVars>>

createJob(pr) ==
  /\ nextId < MaxJobs
  /\ nextId' = nextId + 1
  /\ priority' = Append(priority, pr)
  /\ state' = Append(state, "Created")
  /\ aborted' = Append(aborted, FALSE)
  /\ jobs' = [jobs EXCEPT ![pr] = @ \cup {nextId + 1}]
  /\ jobsById' = jobsById \cup {nextId + 1}
  /\ owner' = Append(owner, 0)
  /\ taskPc' = Append(taskPc, "none")
  /\ attempt' = Append(attempt, 0)
  /\ execResult' = Append(execResult, NoError)
  /\ trace' = Append(trace, <<>>)
  /\ sigSeen' = Append(sigSeen, "unread")
  /\ cancelledIn' = Append(cancelledIn, NotCancelled)
  /\ UNCHANGED <<passVars, auxVars>>

----------------------------------------------------------------------------
\* cancel(jobId)

\* The body of cancel after the lookup has found the job.
cancelBody(c) ==
  LET c1 == isCancelled(c)
  IN IF Thrown(c1) \/ c1.state = "Cancelled" THEN c1
     ELSE removeJob(transitionState(c1, "Cancel"))

\* cancel with `if (!job) return;` for the assertion on the lookup.
cancelResult_SilentOnUnknown(id) ==
  IF id \in jobsById THEN cancelBody(Ctx(id))
  ELSE IF id \in 1..nextId THEN Ctx(id)
  ELSE NoJob

\* cancel(id) as a function of the state it is called in: the context of the
\* job it ends with, carrying the error it throws to its caller, if any.
cancelResult(id) ==
  IF id \in jobsById THEN cancelBody(Ctx(id))
  ELSE \* assert(!!job, "unknown job id")
    Throw(IF id \in 1..nextId THEN Ctx(id) ELSE NoJob, "unknown job id")

\* job.abort() is reached by a call of cancel that ends with context c.
Aborts(id, c) == ~Thrown(c) /\ state[id] # "Cancelled"

\* A call that throws before it has changed anything is a stuttering step.
cancel(id) ==
  LET c == cancelResult(id)
  IN IF id \in 1..nextId
       THEN /\ Store(id, c)
            /\ aborted' = [aborted EXCEPT ![id] = @ \/ Aborts(id, c)]
            /\ cancelledIn' = [cancelledIn EXCEPT
                                 ![id] = IF Aborts(id, c) THEN Found(id) ELSE @]
            /\ UNCHANGED <<nextId, priority, passVars, taskVars, auxVars, histVars>>
     ELSE UNCHANGED vars

----------------------------------------------------------------------------
\* runJobs(maxFailures)

\* The jobs whose per-job function, started by pass p, has not ended yet.
Pending(p) ==
  {j \in 1..nextId : owner[j] = p /\ taskPc[j] \in {"sleep", "pending", "settled"}}

(***************************************************************************)
(* One turn of the for loop up to `await Promise.all(...)`: the snapshot   *)
(* Array.from(this.jobs[priority].values()) and the synchronous part of    *)
(* the per-job function for each job of it, in insertion order, which is   *)
(* the order of the ids.  ch gives the outcome of each first invocation.   *)
(* pre is the set of jobs of the snapshot that a callback invoked earlier  *)
(* in this same turn has cancelled (by calling cancel) before the loop     *)
(* reaches them.  Apart from that, a job's per-job function reads and      *)
(* writes that job alone, so the jobs are handled pointwise.               *)
(***************************************************************************)
\* A snapshot that takes in the tiers already dispatched as well.
snapshot_UpToTier(tier) == UNION {jobs[PriorityOrder[t]] : t \in 1..tier}

\* Array.from(this.jobs[priority].values()) for the priority of the tier.
snapshot(tier) == jobs[PriorityOrder[tier]]

dispatchTier(p, tier) ==
  LET snap == snapshot(tier)
  IN \E ch \in [snap -> Outcomes], pre \in SUBSET snap :
       LET cs == [j \in snap |-> IF j \in pre THEN cancelResult(j) ELSE Ctx(j)]
           ab == [j \in snap |-> aborted[j] \/ (j \in pre /\ Aborts(j, cs[j]))]
           ds == [j \in snap |->
                    jobStart([cs[j] EXCEPT !.error = NoError], ab[j], ch[j])]
           started(j) == j \in snap /\ ds[j].started
       IN /\ \A k \in pre : \E j \in snap \ pre :
                                j < k /\ ds[j].started /\ ds[j].ex.invoked
          /\ state' = [j \in 1..nextId |->
                         IF j \in snap THEN ds[j].ctx.state ELSE state[j]]
          /\ jobsById' = {j \in jobsById : j \in snap => ds[j].ctx.byId}
          /\ jobs' = [pr \in Priority |->
                        {j \in jobs[pr] : j \in snap => ds[j].ctx.byPriority}]
          /\ aborted' = [j \in 1..nextId |-> IF j \in snap THEN ab[j] ELSE aborted[j]]
          /\ cancelledIn' = [j \in 1..nextId |->
                               IF j \in pre /\ Aborts(j, cs[j])
                                 THEN Found(j) ELSE cancelledIn[j]]
          /\ owner' = [j \in 1..nextId |-> IF started(j) THEN p ELSE owner[j]]
          /\ taskPc' = [j \in 1..nextId |->
                          IF started(j) THEN ds[j].ex.pc ELSE taskPc[j]]
          /\ attempt' = [j \in 1..nextId |->
                           IF started(j) THEN ds[j].ex.attempt ELSE attempt[j]]
          /\ execResult' = [j \in 1..nextId |->
                              IF started(j) THEN ds[j].ex.result ELSE execResult[j]]
          /\ trace' = [j \in 1..nextId |->
                         IF started(j) THEN Invoke(j, ds[j].ex, ch[j]) ELSE trace[j]]
          /\ sigSeen' = [j \in 1..nextId |->
                           IF started(j) /\ ds[j].ex.invoked
                             THEN getSignal(j) ELSE sigSeen[j]]
          /\ passFault' = [passFault EXCEPT
                             ![p] = @ \/ \E j \in snap : ds[j].rejected]
          /\ dispatched' = [dispatched EXCEPT ![p] = @ \cup snap]
          /\ passTier' = [passTier EXCEPT ![p] = tier]
          /\ UNCHANGED <<nextId, priority, auxVars, histVars>>

\* The call runJobs(maxFailures), up to its first await.
runJobs(p) ==
  /\ passPc[p] = "idle"
  /\ \A q \in Passes : q < p => passPc[q] # "idle"
  /\ passPc' = [passPc EXCEPT ![p] = "running"]
  /\ dispatchTier(p, 1)
  /\ UNCHANGED maxFailures

(***************************************************************************)
(* runJobs resumes from `await Promise.all(...)`: Promise.all rejects as   *)
(* soon as one per-job promise has rejected, and runJobs then rejects; it  *)
(* resolves when all have resolved, and the loop goes to the next tier or  *)
(* runJobs resolves.                                                       *)
(***************************************************************************)
\* Promise.all without the wait: it resolves while per-job promises are pending.
PromiseAllSettled_NoWait(p) == TRUE

\* The promise of Promise.all over the per-job promises of p's tier has settled.
PromiseAllSettled(p) == IF passFault[p] THEN TRUE ELSE Pending(p) = {}

tierSettled(p) ==
  /\ passPc[p] = "running"
  /\ PromiseAllSettled(p)
  /\ IF passFault[p] \/ passTier[p] = Len(PriorityOrder)
       THEN /\ passPc' = [passPc EXCEPT
                            ![p] = IF passFault[p] THEN "rejected" ELSE "resolved"]
            /\ UNCHANGED <<jobVars, taskVars, cancelledIn, passTier, maxFailures,
                           passFault, dispatched, auxVars, histVars>>
     ELSE /\ dispatchTier(p, passTier[p] + 1)
          /\ UNCHANGED <<passPc, maxFailures>>

----------------------------------------------------------------------------
\* The resumptions of a started job's per-job function and of its executor.

\* The timer of waitForTime fires: the executor's loop goes round once more.
waitForTime(j) ==
  /\ taskPc[j] = "sleep"
  /\ \E o \in Outcomes :
       LET ex == withExponentialBackoff(aborted[j], attempt[j], o)
       IN /\ taskPc' = [taskPc EXCEPT ![j] = ex.pc]
          /\ attempt' = [attempt EXCEPT ![j] = ex.attempt]
          /\ execResult' = [execResult EXCEPT ![j] = ex.result]
          /\ trace' = [trace EXCEPT ![j] = Invoke(j, ex, o)]
          /\ sigSeen' = [sigSeen EXCEPT
                           ![j] = IF ex.invoked THEN getSignal(j) ELSE @]
  /\ UNCHANGED <<jobVars, passVars, owner, cancelledIn, auxVars, histVars>>

\* The per-job function from the moment the executor's promise has settled with
\* result r to its end: the rest of the try block or the catch block, then the
\* finally block.
jobEndCtx(j, r) ==
  LET c0 == [Ctx(j) EXCEPT !.error = r]
  IN catchFinally(IF Thrown(c0) THEN c0 ELSE tryComplete(c0))

jobEnd(j, r) ==
  LET c == jobEndCtx(j, r)
  IN /\ Store(j, c)
     /\ taskPc' = [taskPc EXCEPT ![j] = IF Thrown(c) THEN "rejected" ELSE "resolved"]
     /\ passFault' = [passFault EXCEPT ![owner[j]] = @ \/ Thrown(c)]
     /\ execResult' = [execResult EXCEPT ![j] = NoError]
     /\ attempt' = [attempt EXCEPT ![j] = 0]
     /\ UNCHANGED <<nextId, priority, aborted, passPc, passTier, maxFailures,
                    dispatched, owner, cancelledIn, auxVars, histVars>>

\* The executor settled without suspending (fn returned a value, or threw for the
\* last time): the per-job function resumes from its await.
jobSettles(j) ==
  /\ taskPc[j] = "settled"
  /\ jobEnd(j, execResult[j])
  /\ UNCHANGED <<trace, sigSeen>>

\* The promise the callback returned settles, the callback having read the signal.
\* The executor returned that promise, so its own promise settles the same way
\* and the per-job function resumes from its await.
callbackSettles(j, r) ==
  /\ taskPc[j] = "pending"
  /\ trace' = [trace EXCEPT ![j][Len(trace[j])] = r]
  /\ sigSeen' = [sigSeen EXCEPT ![j] = getSignal(j)]
  /\ jobEnd(j, IF r = "resolve" THEN NoError
               ELSE IF r = "reject" THEN CallbackError
               ELSE NamedAbortError)

----------------------------------------------------------------------------
Next ==
  \/ \E pr \in Priority : createJob(pr) /\ UNCHANGED histVars
  \/ \E p \in Passes : runJobs(p)
  \/ \E id \in JobIds : cancel(id)
  \/ \E p \in Passes : tierSettled(p)
  \/ \E j \in 1..nextId : waitForTime(j)
  \/ \E j \in 1..nextId, r \in SettleOutcomes : callbackSettles(j, r)
  \/ \E j \in 1..nextId : jobSettles(j)

Spec == Init /\ [][Next]_vars

----------------------------------------------------------------------------
(***************************************************************************)
(* SpecTransition drives transitionState alone, on jobs in every state,    *)
(* with every action, and records each call in lastTransition.             *)
(***************************************************************************)
InitTransition ==
  /\ nextId = MaxJobs
  /\ priority = [j \in 1..MaxJobs |-> "high"]
  /\ state \in [1..MaxJobs -> JobStates]
  /\ aborted = [j \in 1..MaxJobs |-> state[j] = "Cancelled"]
  /\ jobsById = {j \in 1..MaxJobs : state[j] \in {"Created", "Processing"}}
  /\ jobs = [pr \in Priority |-> IF pr = "high" THEN jobsById ELSE {}]
  /\ passPc = [p \in Passes |-> "idle"]
  /\ passTier = [p \in Passes |-> 0]
  /\ maxFailures = 0
  /\ passFault = [p \in Passes |-> FALSE]
  /\ dispatched = [p \in Passes |-> {}]
  /\ owner = [j \in 1..MaxJobs |-> 0]
  /\ taskPc = [j \in 1..MaxJobs |-> "none"]
  /\ attempt = [j \in 1..MaxJobs |-> 0]
  /\ execResult = [j \in 1..MaxJobs |-> NoError]
  /\ trace = [j \in 1..MaxJobs |-> <<>>]
  /\ sigSeen = [j \in 1..MaxJobs |-> "unread"]
  /\ cancelledIn = [j \in 1..MaxJobs |-> NotCancelled]
  /\ lastTransition = [id |-> 0, from |-> "", action |-> "", fault |-> NoFault]
  /\ slept = <<>>
  /\ createdAt = <<>>
  /\ createdIn = <<>>

transition(j, action) ==
  LET c == transitionState(Ctx(j), action)
  IN /\ state' = [state EXCEPT ![j] = c.state]
     /\ lastTransition' = [id |-> j, from |-> state[j], action |-> action,
                           fault |-> Fault(c)]
     /\ UNCHANGED <<nextId, priority, aborted, jobs, jobsById, passVars, taskVars,
                    cancelledIn, slept, histVars>>

NextTransition == \E j \in 1..nextId, action \in JobActions : transition(j, action)

SpecTransition == InitTransition /\ [][NextTransition]_vars

----------------------------------------------------------------------------
(***************************************************************************)
(* SpecBackoff follows one run of withExponentialBackoff whose callback    *)
(* fails every time, and records the delay of each sleep.                  *)
(***************************************************************************)
InitBackoff ==
  /\ nextId = 0
  /\ priority = <<>>
  /\ state = <<>>
  /\ aborted = <<>>
  /\ jobs = [pr \in Priority |-> {}]
  /\ jobsById = {}
  /\ passPc = [p \in Passes |-> "idle"]
  /\ passTier = [p \in Passes |-> 0]
  /\ maxFailures = MaxSleeps + 1
  /\ passFault = [p \in Passes |-> FALSE]
  /\ dispatched = [p \in Passes |-> {}]
  /\ owner = <<>>
  /\ taskPc = <<>>
  /\ attempt = <<>>
  /\ execResult = <<>>
  /\ trace = <<>>
  /\ sigSeen = <<>>
  /\ cancelledIn = <<>>
  /\ lastTransition = [id |-> 0, from |-> "", action |-> "", fault |-> NoFault]
  /\ slept = <<>>
  /\ createdAt = <<>>
  /\ createdIn = <<>>

\* The catch block of the executor after a failure that is not the last:
\* attempt++, which makes attempt the number of failures so far, then the sleep.
backoffSleep(jitter) ==
  LET att == Len(slept) + 1
  IN /\ ~(att >= maxFailures)
     /\ slept' = Append(slept, backoffDelay(att, jitter))
     /\ UNCHANGED <<jobVars, passVars, taskVars, cancelledIn, lastTransition,
                    histVars>>

NextBackoff == \E jitter \in Jitters : backoffSleep(jitter)

SpecBackoff == InitBackoff /\ [][NextBackoff]_vars

----------------------------------------------------------------------------
(***************************************************************************)
(* SpecExecutor follows a single runJobs call, with more values of         *)
(* maxFailures, over jobs created beforehand: the retry executor and the   *)
(* per-job function with cancel, without createJob and overlapping passes. *)
(***************************************************************************)
InitExecutor ==
  /\ nextId = MaxJobs
  /\ priority \in [1..MaxJobs -> Priority]
  /\ state = [j \in 1..MaxJobs |-> "Created"]
  /\ aborted = [j \in 1..MaxJobs |-> FALSE]
  /\ jobsById = 1..MaxJobs
  /\ jobs = [pr \in Priority |-> {j \in 1..MaxJobs : priority[j] = pr}]
  /\ passPc = [p \in Passes |-> "idle"]
  /\ passTier = [p \in Passes |-> 0]
  /\ maxFailures \in ExecutorArgs
  /\ passFault = [p \in Passes |-> FALSE]
  /\ dispatched = [p \in Passes |-> {}]
  /\ owner = [j \in 1..MaxJobs |-> 0]
  /\ taskPc = [j \in 1..MaxJobs |-> "none"]
  /\ attempt = [j \in 1..MaxJobs |-> 0]
  /\ execResult = [j \in 1..MaxJobs |-> NoError]
  /\ trace = [j \in 1..MaxJobs |-> <<>>]
  /\ sigSeen = [j \in 1..MaxJobs |-> "unread"]
  /\ cancelledIn = [j \in 1..MaxJobs |-> NotCancelled]
  /\ lastTransition = [id |-> 0, from |-> "", action |-> "", fault |-> NoFault]
  /\ slept = <<>>
  /\ createdAt = <<>>
  /\ createdIn = <<>>

NextExecutor ==
  \/ runJobs(1)
  \/ \E id \in JobIds : cancel(id)
  \/ tierSettled(1)
  \/ \E j \in 1..nextId : waitForTime(j)
  \/ \E j \in 1..nextId, r \in SettleOutcomes : callbackSettles(j, r)
  \/ \E j \in 1..nextId : jobSettles(j)

SpecExecutor == InitExecutor /\ [][NextExecutor]_vars

(***************************************************************************)
(* SpecExecutorFair is SpecExecutor with the scheduling the event loop     *)
(* gives: as long as a timer is set, a promise a callback returned is      *)
(* pending or a continuation is ready to run, one of them fires, settles   *)
(* or is run.  The calls the client makes, runJobs and cancel, are not     *)
(* required to happen.                                                     *)
(***************************************************************************)
Resume ==
  \/ tierSettled(1)
  \/ \E j \in 1..nextId : waitForTime(j)
  \/ \E j \in 1..nextId, r \in SettleOutcomes : callbackSettles(j, r)
  \/ \E j \in 1..nextId : jobSettles(j)

\* One job in each of the first tiers, created before the call.
InitExecutorFair ==
  /\ InitExecutor
  /\ maxFailures \in MaxFailuresArgs
  /\ priority = [j \in 1..MaxJobs |-> PriorityOrder[j]]

SpecExecutorFair ==
  InitExecutorFair /\ [][NextExecutor]_vars /\ WF_vars(Resume)

----------------------------------------------------------------------------
(***************************************************************************)
(* SpecHistory is Spec with a history of the creations: createdAt[j] is    *)
(* the number of runJobs calls that had been made when job j was created.  *)
(***************************************************************************)
CallsMade == Cardinality({p \in Passes : passPc[p] # "idle"})

InitHistory == Init /\ maxFailures \in HistoryArgs

NextHistory ==
  \/ \E pr \in Priority :
       /\ createJob(pr)
       /\ createdAt' = Append(createdAt, CallsMade)
       /\ UNCHANGED createdIn
  \/ \E p \in Passes : runJobs(p)
  \/ \E id \in JobIds : cancel(id)
  \/ \E p \in Passes : tierSettled(p)
  \/ \E j \in 1..nextId : waitForTime(j)
  \/ \E j \in 1..nextId, r \in SettleOutcomes : callbackSettles(j, r)
  \/ \E j \in 1..nextId : jobSettles(j)

SpecHistory == InitHistory /\ [][NextHistory]_vars

----------------------------------------------------------------------------
(***************************************************************************)
(* SpecTiers is Spec with another history of the creations: createdIn[j]   *)
(* is where the first runJobs call was when job j was created: 0 before    *)
(* the call, the tier it was awaiting while in progress, Ended after it    *)
(* had settled.  A second call may overlap the first.                      *)
(***************************************************************************)
Ended == Len(PriorityOrder) + 1

PassPosition(p) ==
  IF passPc[p] = "idle" THEN 0
  ELSE IF passPc[p] = "running" THEN passTier[p]
  ELSE Ended

NextTiers ==
  \/ \E pr \in Priority :
       /\ createJob(pr)
       /\ createdIn' = Append(createdIn, PassPosition(1))
       /\ UNCHANGED createdAt
  \/ \E p \in Passes : runJobs(p)
  \/ \E id \in JobIds : cancel(id)
  \/ \E p \in Passes : tierSettled(p)
  \/ \E j \in 1..nextId : waitForTime(j)
  \/ \E j \in 1..nextId, r \in SettleOutcomes : callbackSettles(j, r)
  \/ \E j \in 1..nextId : jobSettles(j)

SpecTiers == InitHistory /\ [][NextTiers]_vars

----------------------------------------------------------------------------
\* Vocabulary of the properties.

Terminal == {"Completed", "Failed", "Cancelled"}

NonTerminal == {"Created", "Processing"}

\* The position of a job's priority in the order of the tiers.
TierOf(j) == CHOOSE t \in 1..Len(PriorityOrder) : PriorityOrder[t] = priority[j]

\* The number of invocations of a job's callback so far.
Calls(j) == Len(trace[j])

\* Every invocation but possibly the last threw a plain error synchronously.
ThrewUpTo(j, n) == \A i \in 1..n : trace[j][i] = "throw"

\* The per-job function that started the job has run to its end.
Finished(j) == taskPc[j] \in {"resolved", "rejected"}

\* A successful cancel found the job Processing with its per-job function
\* suspended: in a backoff sleep, or on the executor's or the callback's promise.
CancelledInFlight(j) == cancelledIn[j] = "Processing"

\* The last invocation of the callback returned a promise that has settled.
SettledAsync(j) == Calls(j) > 0 /\ trace[j][Calls(j)] \in SettleOutcomes

Max(a, b) == IF a >= b THEN a ELSE b

\* A call of cancel ending with context c has left the job as it was.
LeavesUnchanged(id, c) ==
  /\ c.state = state[id]
  /\ c.byId = (id \in jobsById)
  /\ c.byPriority = (id \in jobs[priority[id]])

----------------------------------------------------------------------------
\* The nine (state, action) pairs for which a next state is defined.
C1_Defined ==
  {<<"Created", "Start", "Processing">>,
   <<"Created", "Cancel", "Cancelled">>,
   <<"Processing", "Complete", "Completed">>,
   <<"Processing", "Cancel", "Cancelled">>,
   <<"Processing", "Fail", "Failed">>,
   <<"Cancelled", "Start", "Cancelled">>,
   <<"Cancelled", "Complete", "Cancelled">>,
   <<"Cancelled", "Cancel", "Cancelled">>,
   <<"Cancelled", "Fail", "Cancelled">>}

\* C1: a call of transitionState on one of the nine defined (state, action)
\* pairs sets the job's state to the listed next state and raises nothing; on
\* each of the other eleven pairs it raises the invalid-transition fault and
\* leaves the state as it was.
C1_TransitionTable ==
  lastTransition.id # 0 =>
    LET t == lastTransition
        next == {d \in C1_Defined : d[1] = t.from /\ d[2] = t.action}
    IN IF next # {}
         THEN /\ t.fault = NoFault
              /\ \A d \in next : state[t.id] = d[3]
         ELSE /\ t.fault = "Invalid state transition"
              /\ state[t.id] = t.from

\* A Complete applied to a Cancelled job was absorbed.
C1_Witness ==
  /\ lastTransition.id # 0
  /\ lastTransition.from = "Cancelled"
  /\ lastTransition.action = "Complete"
  /\ lastTransition.fault = NoFault
  /\ state[lastTransition.id] = "Cancelled"

\* C2: in every reachable state each job is in both indices or in neither, in
\* no priority map but its own, and it is in the indices exactly when its
\* state is Created or Processing.
C2_IndicesAgree ==
  /\ jobsById \subseteq 1..nextId
  /\ \A j \in 1..nextId :
       /\ (j \in jobsById) = (j \in jobs[priority[j]])
       /\ (j \in jobsById) = (state[j] \in NonTerminal)
       /\ \A pr \in Priority \ {priority[j]} : j \notin jobs[pr]

\* One job is Processing and indexed while another has completed and is gone.
C2_Witness ==
  \E j, k \in 1..nextId :
    /\ state[j] = "Processing" /\ j \in jobsById /\ j \in jobs[priority[j]]
    /\ state[k] = "Completed" /\ k \notin jobsById /\ k \notin jobs[priority[k]]

\* Every job a pass dispatched in a tier above the one of job l, which the
\* pass has started, is terminal and its per-job promise has settled.
C3_HigherTiersSettled ==
  \A p \in Passes : \A l \in 1..nextId :
    owner[l] = p =>
      \A h \in dispatched[p] :
        TierOf(h) < TierOf(l) => state[h] \in Terminal /\ h \notin Pending(p)

\* Jobs h and l were both in the indices when runJobs call p was made: h was
\* in the snapshot of the high tier, which p takes when it is called, and l,
\* created before h, was Created when p started it later.
PresentAtCall(p, h, l) ==
  /\ priority[h] = "high" /\ h \in dispatched[p]
  /\ l < h /\ owner[l] = p

\* Once the low job has been invoked, a high job that was present with it at
\* a call of runJobs is not invoked any more.
C3_HighBeforeLow ==
  \A p \in Passes : \A h, l \in 1..nextId :
    (PresentAtCall(p, h, l) /\ priority[l] = "low" /\ Calls(l) > 0)
      => Len(trace'[h]) = Len(trace[h])

\* C3: during a runJobs pass no job of a lower tier is started until every
\* job the pass dispatched in higher tiers has settled and is terminal; for a
\* high and a low job both present when runJobs is called, every invocation
\* of the high job's callback precedes the first invocation of the low job's.
C3_TierBarrier == [] C3_HigherTiersSettled /\ [][C3_HighBeforeLow]_vars

\* The same order among the jobs that one and the same pass has started.
C3_HighBeforeLowOfOnePass ==
  \A h, l \in 1..nextId :
    (owner'[h] # 0 /\ owner'[h] = owner'[l] /\ TierOf(h) < TierOf(l)
       /\ Len(trace'[l]) > 0)
      => Len(trace'[h]) = Len(trace[h])

\* The barrier as far as it holds: among the jobs a single pass has started.
C3_BarrierWithinOnePass ==
  [] C3_HigherTiersSettled /\ [][C3_HighBeforeLowOfOnePass]_vars

C5_FailThenSucceed ==
  \A j \in 1..nextId :
    (~aborted[j] /\ Calls(j) > 0 /\ ThrewUpTo(j, Calls(j) - 1)
       /\ trace[j][Calls(j)] \in {"return", "resolve"} /\ Finished(j)) =>
      /\ Calls(j) - 1 < maxFailures \/ Calls(j) = 1
      /\ state[j] = "Completed"

\* A call of cancel on a job that is Created or Processing returns normally,
\* leaves the job Cancelled and in neither index, and sets its signal.
C6_CancelTakesEffect ==
  \A id \in 1..nextId :
    state[id] \in NonTerminal =>
      LET c == cancelResult(id)
      IN ~Thrown(c) /\ c.state = "Cancelled" /\ ~c.byId /\ ~c.byPriority
         /\ Aborts(id, c)

\* A step in which a job is or becomes cancelled leaves it Cancelled, out of
\* the indices, its signal set, and does not invoke its callback.
C6_NotInvokedAgain ==
  \A j \in 1..nextId :
    /\ cancelledIn'[j] # cancelledIn[j] =>
         /\ aborted'[j] /\ state'[j] = "Cancelled"
         /\ j \notin jobsById' /\ \A pr \in Priority : j \notin jobs'[pr]
    /\ aborted'[j] => Len(trace'[j]) = Len(trace[j])
    /\ aborted[j] => aborted'[j]

\* C6: cancel on a Created or Processing job leaves it Cancelled, removes it
\* from both indices and sets its cancellation signal; from then on its
\* callback is never invoked again, neither by a retry nor by any pass.
C6_CancelStopsJob == [] C6_CancelTakesEffect /\ [][C6_NotInvokedAgain]_vars

\* A job was cancelled during a backoff sleep, and the retry that was due
\* ended the per-job function without another invocation.
C6_Witness ==
  \E j \in 1..nextId :
    /\ maxFailures = 2 /\ CancelledInFlight(j)
    /\ aborted[j] /\ state[j] = "Cancelled"
    /\ taskPc[j] = "resolved" /\ trace[j] = <<"throw">>

\* C7: a second call of cancel on a job already cancelled returns normally
\* and changes nothing.
C7_CancelIdempotent ==
  \A id \in 1..nextId :
    cancelledIn[id] # NotCancelled =>
      LET c == cancelResult(id)
      IN ~Thrown(c) /\ LeavesUnchanged(id, c)

\* C8: a job cancelled while it is Processing, its callback pending or its
\* executor asleep, stays Cancelled whatever the callback then does; a
\* callback that settles after the cancel reads the signal as set; the
\* per-job function does not reject, so the pass is not failed by it.
C8_CancelledWhileProcessing ==
  \A j \in 1..nextId :
    CancelledInFlight(j) =>
      /\ state[j] = "Cancelled"
      /\ aborted[j]
      /\ taskPc[j] # "rejected"
      /\ SettledAsync(j) => sigSeen[j] = "set"

\* A callback pending at the cancel rejected afterwards, and the pass resolved.
C8_Witness ==
  \E j \in 1..nextId :
    /\ CancelledInFlight(j)
    /\ trace[j] = <<"reject">>
    /\ sigSeen[j] = "set"
    /\ taskPc[j] = "resolved" /\ state[j] = "Cancelled"
    /\ passPc[owner[j]] = "resolved"

\* Removing a terminal job again changes nothing and raises nothing.
C9_RemoveAgainIsNoop ==
  \A j \in 1..nextId :
    state[j] \in Terminal =>
      LET r == removeJob(Ctx(j))
      IN ~Thrown(r) /\ LeavesUnchanged(j, r) /\ ~r.byId /\ ~r.byPriority

\* No step changes the state of a terminal job or puts it back in an index.
C9_TerminalIsFinal ==
  \A j \in 1..nextId :
    state[j] \in Terminal =>
      /\ state'[j] = state[j]
      /\ j \notin jobsById'
      /\ \A pr \in Priority : j \notin jobs'[pr]

\* C9: once a job is Completed, Failed or Cancelled its state never changes
\* again; it is removed from the indices once and a further removal is a
\* no-op that raises nothing.
C9_TerminalAbsorbs == [] C9_RemoveAgainIsNoop /\ [][C9_TerminalIsFinal]_vars

\* A job cancelled with its callback pending, whose callback then resolved:
\* the completion and the second removal were absorbed.
C9_Witness ==
  \E j \in 1..nextId :
    /\ CancelledInFlight(j)
    /\ trace[j] = <<"resolve">>
    /\ taskPc[j] = "resolved" /\ state[j] = "Cancelled"
    /\ j \notin jobsById

\* C10: cancel on a job that is Completed or Failed raises a fault and leaves
\* the job's state, its signal and both indices as they were.
C10_CancelAfterEnd ==
  \A id \in 1..nextId :
    state[id] \in {"Completed", "Failed"} =>
      LET c == cancelResult(id)
      IN Thrown(c) /\ LeavesUnchanged(id, c) /\ ~Aborts(id, c)

\* A completed job on which cancel raises.
C10_Witness ==
  \E id \in 1..nextId :
    /\ state[id] = "Completed" /\ ~aborted[id]
    /\ Thrown(cancelResult(id))

\* The last invocation of the job's callback failed: it threw, or the
\* promise it returned rejected.
LastCallFailed(j) ==
  /\ Calls(j) > 0
  /\ trace[j][Calls(j)] \in {"throw", "throwAbort", "reject", "rejectAbort"}

\* No runJobs call but the one that started the job has run its per-job
\* function for it.
OnlyOwnerDispatched(j) ==
  \A q \in Passes : j \in dispatched[q] => q = owner[j]

\* C11: runJobs never raises because a job's callback failed: when the
\* per-job function of a never-cancelled job ends after the callback's last
\* failure, the job is Failed, it is in neither index, and its per-job promise
\* has resolved, so that the pass goes on and resolves.  Stated for jobs that
\* no overlapping pass has touched.
C11_FailureAbsorbed ==
  \A j \in 1..nextId :
    (~aborted[j] /\ OnlyOwnerDispatched(j) /\ Finished(j) /\ LastCallFailed(j)) =>
      /\ state[j] = "Failed"
      /\ j \notin jobsById /\ j \notin jobs[priority[j]]
      /\ taskPc[j] = "resolved"

\* The ids that createJob has not returned.
UnknownIds == JobIds \ (1..nextId)

\* cancel on an id that createJob never returned raises the unknown-id fault
\* before it has reached job.abort().
C12_UnknownIdFaults ==
  \A id \in UnknownIds :
    LET c == cancelResult(id)
    IN Fault(c) = "unknown job id" /\ ~c.byId /\ ~c.byPriority

\* A call of cancel on such an id changes no job's state, no index and no
\* signal.
C12_UnknownIdChangesNothing ==
  \A id \in UnknownIds :
    cancel(id) => UNCHANGED <<state, jobs, jobsById, aborted>>

\* C12: cancel(id) with an id that createJob never returned raises a fault
\* and changes no job's state, no index and no cancellation signal.
C12_CancelUnknownId == [] C12_UnknownIdFaults /\ [][C12_UnknownIdChangesNothing]_vars

\* One job exists, and cancel on another id raises.
C12_Witness ==
  /\ nextId = 1 /\ state[1] = "Processing"
  /\ \E id \in UnknownIds : Thrown(cancelResult(id))

\* A step that constructs a job: the job is new, Created, in jobsById and in
\* the map of its own priority alone, its signal is not set, and the jobs
\* that existed are left as they were.
C13_CreateStep ==
  nextId' # nextId =>
    LET j == nextId'
    IN /\ j = nextId + 1 /\ j \notin 1..nextId
       /\ state'[j] = "Created"
       /\ ~aborted'[j]
       /\ j \in jobsById'
       /\ \A pr \in Priority : (j \in jobs'[pr]) = (pr = priority'[j])
       /\ \A k \in 1..nextId :
            /\ state'[k] = state[k] /\ priority'[k] = priority[k]
            /\ aborted'[k] = aborted[k]
            /\ (k \in jobsById') = (k \in jobsById)

\* C13: every createJob call returns a job in state Created with an id no
\* earlier job has; after the call the job is in the flat id index and in
\* the priority index of exactly its own priority, its signal not set.
C13_CreateJob == [][C13_CreateStep]_vars

\* A second job has been created, of another priority, after the first one
\* has been started.
C13_Witness ==
  /\ nextId = 2
  /\ state[1] = "Processing" /\ state[2] = "Created"
  /\ priority[1] # priority[2]
  /\ 2 \in jobsById /\ 2 \in jobs[priority[2]] /\ ~aborted[2]

\* C14: with base delay 1000 the delay slept after the k-th failure is
\* 2^k * 500 plus a jitter in [0, 500), and whatever the jitters the delay
\* after failure k + 1 is strictly greater than the delay after failure k.
C14_BackoffGrows ==
  \A k \in 1..Len(slept) :
    /\ slept[k] - 2 ^ k * 500 \in 0..499
    /\ k > 1 => slept[k] > slept[k - 1]

\* Three sleeps, the greatest jitter followed by the least, twice over.
C14_Witness ==
  /\ Len(slept) = 3
  /\ slept[1] = 1000 + 499 /\ slept[2] = 2000 /\ slept[3] > slept[2]

\* The executor's promise has been rejected with a cancellation fault: an
\* error that the catch blocks recognise as one, by its name.
CancelledFault(e) == e.name = "AbortError"

\* No step from a state in which the executor of a cancelled job is about to
\* make an attempt increments the attempt counter, invokes the callback or
\* ends the executor otherwise than with its cancellation fault.
C15_AbortedAttempt ==
  \A j \in 1..nextId :
    (aborted[j] /\ taskPc[j] = "sleep") =>
      /\ attempt'[j] = attempt[j]
      /\ trace'[j] = trace[j]
      /\ taskPc'[j] \in {"sleep", "settled"}
      /\ taskPc'[j] = "settled" => CancelledFault(execResult'[j])

\* C15: when the retry executor is about to make an attempt and the signal
\* is already set, it ends at once with a cancellation fault: it does not
\* invoke the callback, does not increment the attempt counter and does not
\* sleep again, whatever maxFailures is.
C15_ExecutorStopsWhenAborted == [][C15_AbortedAttempt]_vars

\* The per-job function is about to resume from an executor that has ended
\* with the fault of its abort check.
EndedOnAbortCheck(j) == taskPc[j] = "settled" /\ execResult[j] = AbortCheckError

\* C16: when the retry executor has ended with its cancellation fault for a
\* job, the rest of the per-job function finds the job Cancelled, issues no
\* transition action for it (no Fail in particular), does not report the job
\* as failed, and raises nothing.
C16_CancellationNotFailure ==
  \A j \in 1..nextId :
    EndedOnAbortCheck(j) =>
      LET c == jobEndCtx(j, execResult[j])
      IN /\ state[j] = "Cancelled" /\ c.state = "Cancelled"
         /\ c.issued = <<>>
         /\ ~c.jobFailed
         /\ ~Thrown(c)

\* Pass p runs the per-job function for job j in this step.
Dispatches(p, j) == j \in dispatched'[p] /\ j \notin dispatched[p]

\* A pass that finds a job Processing at dispatch leaves the job's state as
\* it is and has a rejected per-job promise, which makes runJobs raise.
C17_FoundProcessing ==
  \A p \in Passes : \A j \in 1..nextId :
    (Dispatches(p, j) /\ state[j] = "Processing") =>
      /\ state'[j] = "Processing"
      /\ j \in jobsById'
      /\ passFault'[p]

\* C17: an invariant violation detected in a job's per-job function, such as
\* a job found Processing at dispatch by a runJobs call that overlaps the one
\* that started it, propagates out of runJobs as a fault and is not handled
\* as a failure of the job: no Fail action, the job's state left as it was.
C17_ViolationPropagates == [][C17_FoundProcessing]_vars

\* C18: the fault cancel raises on a job that is Completed or Failed is the
\* state machine's invalid-transition fault, not the unknown-id fault.
C18_InvalidTransitionFault ==
  \A id \in 1..nextId :
    state[id] \in {"Completed", "Failed"} =>
      Fault(cancelResult(id)) = "Invalid state transition"

\* Every invocation of the job's callback so far returned a promise that
\* has rejected with a plain error.
AllRejected(j) == \A i \in 1..Calls(j) : trace[j][i] = "reject"

\* C19: a failure that arrives asynchronously is retried like a synchronous
\* one: a never-cancelled job whose callback rejects on every invocation has
\* been invoked max(1, maxFailures) times when it is recorded as Failed.
C19_AsyncFailureRetried ==
  \A j \in 1..nextId :
    (~aborted[j] /\ OnlyOwnerDispatched(j) /\ Finished(j)
       /\ Calls(j) > 0 /\ AllRejected(j)) =>
      /\ state[j] = "Failed"
      /\ Calls(j) = Max(1, maxFailures)

\* The per-job function of job j is suspended on its executor.
Suspended(j) == taskPc[j] \in {"sleep", "pending", "settled"}

\* In a step in which a pass dispatches a tier, every job of the tier that is
\* Created when the pass comes to it (no callback of the tier has cancelled
\* it meanwhile) is moved to Processing and has its callback invoked, and is
\* suspended at the end of the step: none has resumed before all were started.
C20_AllStartedAtOnce ==
  \A p \in Passes : \A j \in 1..nextId :
    (Dispatches(p, j) /\ state[j] = "Created" /\ ~aborted'[j]) =>
      /\ state'[j] = "Processing"
      /\ owner'[j] = p
      /\ Len(trace'[j]) = Len(trace[j]) + 1
      /\ taskPc'[j] \in {"sleep", "pending", "settled"}

\* A pass goes on to its next tier, or resolves, only when no per-job
\* function it started is still suspended.
C20_TierEndsWhenSettled ==
  \A p \in Passes :
    (passPc[p] = "running"
       /\ (passTier'[p] # passTier[p] \/ passPc'[p] = "resolved"))
      => Pending(p) = {}

\* C20: within one tier the jobs are dispatched concurrently: every job of
\* the tier still Created at its dispatch is moved to Processing and invoked
\* before any suspended job of the tier resumes or settles, and the tier
\* ends only after every dispatched job has settled.
C20_ConcurrentTier ==
  [][C20_AllStartedAtOnce /\ C20_TierEndsWhenSettled]_vars

\* Two jobs of one tier are Processing at once, both callbacks pending.
C20_Witness ==
  \E j, k \in 1..nextId :
    /\ j # k /\ priority[j] = priority[k]
    /\ owner[j] # 0 /\ owner[j] = owner[k]
    /\ state[j] = "Processing" /\ state[k] = "Processing"
    /\ taskPc[j] = "pending" /\ taskPc[k] = "pending"

\* The outcomes of an invocation that are failures of the callback.
FailedOutcomes == {"throw", "throwAbort", "reject", "rejectAbort"}

\* The number of invocations of job j's callback that have failed.
Failures(j) == Cardinality({i \in 1..Calls(j) : trace[j][i] \in FailedOutcomes})

\* The retry loop gives up at the latest on failure number max(1, maxFailures).
C22_FailuresBounded ==
  \A j \in 1..nextId :
    /\ Failures(j) <= Max(1, maxFailures)
    /\ Calls(j) <= Max(1, maxFailures)

\* C22: whatever maxFailures is, if every invocation of a callback settles
\* and every backoff sleep ends, the retry loop of every started job ends
\* after at most max(1, maxFailures) failures and every runJobs call that was
\* made eventually resolves, with or without calls of cancel in between.
C22_Termination ==
  /\ [] C22_FailuresBounded
  /\ \A j \in JobIds : (owner[j] # 0) ~> Finished(j)
  /\ \A p \in Passes : (passPc[p] = "running") ~> (passPc[p] = "resolved")

\* What holds of it: the retry loops end within the bound and every runJobs
\* call that was made settles, by resolving or by rejecting.
C22_Settles ==
  /\ [] C22_FailuresBounded
  /\ \A j \in JobIds : (owner[j] # 0) ~> Finished(j)
  /\ \A p \in Passes : (passPc[p] = "running") ~> (passPc[p] # "running")

\* A call that no other call overlaps rejects only after a callback has
\* failed with an error named AbortError on a job that was not Cancelled.
C22_RejectsOnNamedAbortOnly ==
  passPc[1] = "rejected" =>
    \E j \in 1..nextId :
      /\ taskPc[j] = "rejected"
      /\ trace[j][Calls(j)] \in {"throwAbort", "rejectAbort"}
      /\ cancelledIn[j] \in {NotCancelled, "Abandoned"}

\* Job j was created before runJobs call p was made: it was in the indices
\* at the call unless a cancel or an earlier pass had removed it by then.
CreatedBeforeCall(j, p) == createdAt[j] < p

\* C21: once a runJobs call has resolved, every job that was in the indices
\* when the call was made is Completed, Failed or Cancelled and is in neither
\* index.
C21_ResolvedPassDrained ==
  \A p \in Passes :
    passPc[p] = "resolved" =>
      \A j \in 1..nextId :
        CreatedBeforeCall(j, p) =>
          /\ state[j] \in Terminal
          /\ j \notin jobsById
          /\ j \notin jobs[priority[j]]

\* A call has resolved after it ran a job that was there when it was made,
\* while a job created during the call is still Created and indexed.
C21_Witness ==
  \E p \in Passes : \E j, k \in 1..nextId :
    /\ passPc[p] = "resolved"
    /\ CreatedBeforeCall(j, p) /\ owner[j] = p /\ state[j] = "Completed"
    /\ ~CreatedBeforeCall(k, p) /\ state[k] = "Created" /\ k \in jobsById

\* A job's signal is aborted exactly when the job is Cancelled.
C23_SignalIffCancelled ==
  \A j \in 1..nextId : aborted[j] <=> state[j] = "Cancelled"

\* No step clears a signal that is aborted.
C23_SignalNeverCleared ==
  \A j \in 1..nextId : aborted[j] => aborted'[j]

\* C23: in every state between two operations a job's signal is aborted if and
\* only if the job's state is Cancelled, so it is not aborted for a job that
\* is Created, Processing, Completed or Failed; a signal that is aborted is
\* never cleared.
C23_SignalFollowsCancel ==
  [] C23_SignalIffCancelled /\ [][C23_SignalNeverCleared]_vars

\* A job cancelled while its per-job function was suspended has an aborted
\* signal after that function has run to its end; another job has failed and
\* its signal is not aborted.
C23_Witness ==
  \E j, k \in 1..nextId :
    /\ CancelledInFlight(j) /\ Finished(j)
    /\ state[j] = "Cancelled" /\ aborted[j]
    /\ state[k] = "Failed" /\ ~aborted[k]

\* Job j was created while the first runJobs call was in progress, into a
\* tier the call had not dispatched yet.
CreatedAhead(j) ==
  createdIn[j] \in 1..Len(PriorityOrder) /\ TierOf(j) > createdIn[j]

\* Job j was created while the first runJobs call was in progress, into the
\* tier it was awaiting or into a tier it had finished.
CreatedBehind(j) ==
  createdIn[j] \in 1..Len(PriorityOrder) /\ TierOf(j) <= createdIn[j]

\* Nothing but the first runJobs call has acted on job j: no cancel took
\* effect on it and no later call has started it.
LeftToFirstCall(j) == cancelledIn[j] = NotCancelled /\ owner[j] \in {0, 1}

\* A pass runs the per-job function in the steps in which it begins a tier,
\* the tiers in order, for exactly the jobs in that tier's index at that
\* moment, and starts each of them that it finds Created.
C24_SnapshotAtDispatch ==
  \A p \in Passes :
    LET run == {j \in 1..nextId : Dispatches(p, j)}
    IN IF passTier'[p] # passTier[p]
         THEN /\ passTier'[p] = passTier[p] + 1
              /\ run = jobs[PriorityOrder[passTier'[p]]]
              /\ \A j \in run :
                   (state[j] = "Created" /\ ~aborted'[j]) =>
                     owner'[j] = p /\ Len(trace'[j]) = Len(trace[j]) + 1
         ELSE run = {}

\* A job created ahead of the first call has been run by it once the call
\* has come to the job's tier, unless it was cancelled before it was started
\* or a later call started it.  A job created behind it is never run by
\* it, and is still Created and in both indices when the call has resolved.
C24_CreatedDuringPass ==
  \A j \in 1..nextId :
    /\ (CreatedAhead(j) /\ passTier[1] >= TierOf(j)
          /\ cancelledIn[j] # "Created" /\ owner[j] \in {0, 1}) =>
         j \in dispatched[1] /\ owner[j] = 1 /\ Calls(j) >= 1
    /\ CreatedBehind(j) =>
         /\ j \notin dispatched[1] /\ owner[j] # 1
         /\ (passPc[1] = "resolved" /\ LeftToFirstCall(j)) =>
              /\ state[j] = "Created" /\ Calls(j) = 0
              /\ j \in jobsById /\ j \in jobs[priority[j]]

\* C24: a runJobs call runs exactly the jobs that are in a tier's index at
\* the moment it begins that tier: a job created during the call into a tier
\* not yet dispatched is run by the call, and a job created into the tier
\* being awaited or into a finished tier is not started by the call and is
\* still Created in both indices when the call resolves.
C24_TierSnapshot ==
  [] C24_CreatedDuringPass /\ [][C24_SnapshotAtDispatch]_vars

\* The first call has resolved after it ran and completed a job created
\* during it ahead of its tier, while a job created behind it, which nothing
\* else has acted on, is still Created and indexed.
C24_Witness ==
  \E j, k \in 1..nextId :
    /\ passPc[1] = "resolved"
    /\ CreatedAhead(j) /\ owner[j] = 1 /\ state[j] = "Completed"
    /\ CreatedBehind(k) /\ LeftToFirstCall(k)
    /\ state[k] = "Created" /\ k \in jobsById

====
